---- MODULE Spec2Model ----
(***************************************************************************)
(* Model of browser/src/NeovimInstance.ts: the adapter between the Neovim  *)
(* msgpack-rpc session and the UI.  The state is the adapter's fields, the *)
(* startup promise with its deferred callbacks, and the adapter's outputs  *)
(* (the emitted "action" and "mode-change" events, the calls made on the   *)
(* Neovim session and on the plugin manager).                              *)
(***************************************************************************)
EXTENDS Integers, Sequences, FiniteSets, TLC

(***************************************************************************)
(* Bounds of the model.                                                    *)
(***************************************************************************)
\* total number of redraw batches / other notifications delivered in a run
MaxBatches == 3
\* total number of resize() / setFont() calls in a run, the constructor's included
MaxCalls == 3

(***************************************************************************)
(* JavaScript values.  Payloads are untyped (any) in the source, so a      *)
(* value is a tagged record: undefined, boolean, number, string, object    *)
(* (the attribute map of highlight_set) or array.                          *)
(***************************************************************************)
HlKeys == {"bold", "italic", "reverse", "underline", "undercurl", "foreground", "background"}

Prim(k, s, n) == [k |-> k, s |-> s, n |-> n]

PUndefined == Prim("undefined", "", 0)

EmptyMap == [key \in HlKeys |-> PUndefined]

Lift(p) == [k |-> p.k, s |-> p.s, n |-> p.n, m |-> EmptyMap, a |-> <<>>]

Undefined == Lift(PUndefined)

JBool(b) == Lift(Prim("bool", "", IF b THEN 1 ELSE 0))

JNum(i) == Lift(Prim("num", "", i))

JStr(s) == Lift(Prim("str", s, 0))

JMap(m) == [k |-> "map", s |-> "", n |-> 0, m |-> m, a |-> <<>>]

JArr(a) == [k |-> "arr", s |-> "", n |-> 0, m |-> EmptyMap, a |-> a]

\* !!v
Truthy(v) ==
    CASE v.k = "undefined" -> FALSE
      [] v.k = "bool" -> v.n = 1
      [] v.k = "num" -> v.n # 0
      [] v.k = "str" -> v.s # ""
      [] OTHER -> TRUE

\* v[i] and v.key raise a TypeError exactly when v is undefined
ReadThrows(v) == v.k = "undefined"

\* seq[i] on a JavaScript array held as a sequence (0-based, undefined outside)
Index0(seq, i) == IF i >= 0 /\ i < Len(seq) THEN seq[i + 1] ELSE Undefined

\* v[i] on a value
At(v, i) == IF v.k = "arr" THEN Index0(v.a, i) ELSE Undefined

\* v.key on a value
Prop(v, key) == IF v.k = "map" THEN Lift(v.m[key]) ELSE Undefined

(***************************************************************************)
(* Actions (./actions is outside the sources: an action is the creator's   *)
(* name with the arguments it was given).                                  *)
(***************************************************************************)
Action(type, args) == [type |-> type, args |-> args]

(***************************************************************************)
(* _handleNotification: the body of the forEach callback for one batch a.  *)
(* The result is what the callback emits before it returns or throws.      *)
(***************************************************************************)
\* this.emit(event, value)
Emitted(event, value) == [event |-> event, value |-> value]

\* actions: the "action" events; modes: the "mode-change" events; warns: the
\* console warnings; trace: every emit call in the order it was made
Out(acts, modes, warns, threw) ==
    [actions |-> acts, modes |-> modes, warns |-> warns, threw |-> threw,
     trace |-> [i \in 1..Len(acts) |-> Emitted("action", acts[i])]]

\* an exception leaves the callback before anything is emitted
Thrown == Out(<<>>, <<>>, <<>>, TRUE)

Emit(act) == Out(<<act>>, <<>>, <<>>, FALSE)

\* a.map(v => v[0])
MapFirst(a) == [i \in 1..Len(a) |-> At(a[i], 0)]

HighlightSetNoCoerce(a) ==
    LET count == Len(a)
        last == Index0(a, count - 1)
        highlightInfo == At(last, 0)
    IN  IF ReadThrows(last) \/ ReadThrows(highlightInfo) THEN Thrown
        ELSE Emit(Action("SET_HIGHLIGHT",
                 << Prop(highlightInfo, "bold"),
                    Prop(highlightInfo, "italic"),
                    Prop(highlightInfo, "reverse"),
                    Prop(highlightInfo, "underline"),
                    Prop(highlightInfo, "undercurl"),
                    Prop(highlightInfo, "foreground"),
                    Prop(highlightInfo, "background") >>))

HighlightSetFirstTuple(a) ==
    LET first == Index0(a, 0)
        highlightInfo == At(first, 0)
    IN  IF ReadThrows(first) \/ ReadThrows(highlightInfo) THEN Thrown
        ELSE Emit(Action("SET_HIGHLIGHT",
                 << JBool(Truthy(Prop(highlightInfo, "bold"))),
                    JBool(Truthy(Prop(highlightInfo, "italic"))),
                    JBool(Truthy(Prop(highlightInfo, "reverse"))),
                    JBool(Truthy(Prop(highlightInfo, "underline"))),
                    JBool(Truthy(Prop(highlightInfo, "undercurl"))),
                    Prop(highlightInfo, "foreground"),
                    Prop(highlightInfo, "background") >>))

\* the highlight_set branch, on the batch after a.shift()
HighlightSet(a) ==
    LET count == Len(a)
        last == Index0(a, count - 1)
        highlightInfo == At(last, 0)
    IN  IF ReadThrows(last) \/ ReadThrows(highlightInfo) THEN Thrown
        ELSE Emit(Action("SET_HIGHLIGHT",
                 << JBool(Truthy(Prop(highlightInfo, "bold"))),
                    JBool(Truthy(Prop(highlightInfo, "italic"))),
                    JBool(Truthy(Prop(highlightInfo, "reverse"))),
                    JBool(Truthy(Prop(highlightInfo, "underline"))),
                    JBool(Truthy(Prop(highlightInfo, "undercurl"))),
                    Prop(highlightInfo, "foreground"),
                    Prop(highlightInfo, "background") >>))

PutPerCharacter(a) ==
    Out([i \in 1..Len(a) |-> Action("PUT", << JArr(<<At(a[i], 0)>>) >>)], <<>>, <<>>, FALSE)

\* the put branch, on the batch after a.shift()
Put(a) == Emit(Action("PUT", << JArr(MapFirst(a)) >>))

\* a creator called with a[0][0], ..., a[0][n-1]
FirstTuple(type, a, n) ==
    LET param == Index0(a, 0)
    IN  IF ReadThrows(param) THEN Thrown
        ELSE Emit(Action(type, [i \in 1..n |-> At(param, i - 1)]))

ModeChangeSignalFirst(a) ==
    LET param == Index0(a, 0)
        newMode == At(param, 0)
    IN  IF ReadThrows(param) THEN Thrown
        ELSE [Out(<<Action("CHANGE_MODE", <<newMode>>)>>, <<newMode>>, <<>>, FALSE)
                EXCEPT !.trace = << Emitted("mode-change", newMode),
                                    Emitted("action", Action("CHANGE_MODE", <<newMode>>)) >>]

\* the mode_change branch: the action is emitted, then "mode-change"
ModeChange(a) ==
    LET param == Index0(a, 0)
        newMode == At(param, 0)
    IN  IF ReadThrows(param) THEN Thrown
        ELSE [Out(<<Action("CHANGE_MODE", <<newMode>>)>>, <<newMode>>, <<>>, FALSE)
                EXCEPT !.trace = << Emitted("action", Action("CHANGE_MODE", <<newMode>>)),
                                    Emitted("mode-change", newMode) >>]

UnhandledCommandAborts(command) ==
    Out(<<>>, <<>>, <<"Unhandled command: " \o command>>, TRUE)

\* the final else branch
UnhandledCommand(command) ==
    Out(<<>>, <<>>, <<"Unhandled command: " \o command>>, FALSE)

\* one invocation of the forEach callback
HandleCommand(batch) ==
    LET command == Head(batch).s
        a == Tail(batch)
    IN  CASE command = "cursor_goto" -> FirstTuple("CURSOR_GOTO", a, 2)
          [] command = "put" -> Put(a)
          [] command = "set_scroll_region" -> FirstTuple("SET_SCROLL_REGION", a, 4)
          [] command = "scroll" -> FirstTuple("SCROLL", a, 1)
          [] command = "highlight_set" -> HighlightSet(a)
          [] command = "resize" -> FirstTuple("RESIZE", a, 2)
          [] command = "eol_clear" -> Emit(Action("CLEAR_TO_END_OF_LINE", <<>>))
          [] command = "clear" -> Emit(Action("CLEAR", <<>>))
          [] command = "mouse_on" -> Out(<<>>, <<>>, <<>>, FALSE)
          [] command = "update_bg" -> FirstTuple("UPDATE_BG", a, 1)
          [] command = "update_fg" -> FirstTuple("UPDATE_FG", a, 1)
          [] command = "mode_change" -> ModeChange(a)
          [] OTHER -> UnhandledCommand(command)

RECURSIVE ForEachNewestFirst(_, _)
ForEachNewestFirst(args, acc) ==
    IF args = <<>> THEN acc
    ELSE LET r == HandleCommand(Head(args))
             acc2 == [Out(r.actions \o acc.actions, r.modes \o acc.modes,
                          r.warns \o acc.warns, r.threw)
                        EXCEPT !.trace = r.trace \o acc.trace]
         IN  IF r.threw THEN acc2 ELSE ForEachNewestFirst(Tail(args), acc2)

\* args.forEach(callback): the batches in order; an exception thrown by the
\* callback ends the loop and leaves _handleNotification
RECURSIVE ForEach(_, _)
ForEach(args, acc) ==
    IF args = <<>> THEN acc
    ELSE LET r == HandleCommand(Head(args))
             acc2 == [Out(acc.actions \o r.actions, acc.modes \o r.modes,
                          acc.warns \o r.warns, r.threw)
                        EXCEPT !.trace = acc.trace \o r.trace]
         IN  IF r.threw THEN acc2 ELSE ForEach(Tail(args), acc2)

HandleNotification(args) == ForEach(args, Out(<<>>, <<>>, <<>>, FALSE))

(***************************************************************************)
(* The oni_plugin_notify branch of the notification handler.               *)
(***************************************************************************)
PluginOut(calls, threw) == [calls |-> calls, threw |-> threw]

\* pluginArgs.shift() changes args[0] in place; handleNotification is then
\* given args itself, whose first element is the shifted array
PluginNotify(args) ==
    LET pluginArgs == Index0(args, 0)
    IN  IF pluginArgs.k # "arr" THEN PluginOut(<<>>, TRUE)
        ELSE LET pluginMethod == Index0(pluginArgs.a, 0)
                 shifted == IF pluginArgs.a = <<>> THEN <<>> ELSE Tail(pluginArgs.a)
             IN  PluginOut(<< [method |-> pluginMethod,
                               args |-> <<JArr(shifted)>> \o Tail(args)] >>, FALSE)

(***************************************************************************)
(* Inputs of the model.                                                    *)
(***************************************************************************)
Tuple(fields) == JArr(fields)

Batch(command, tuples) == <<JStr(command)>> \o tuples

Attrs(bold, italic, foreground, background) ==
    JMap([EmptyMap EXCEPT !["bold"] = bold, !["italic"] = italic,
                          !["foreground"] = foreground, !["background"] = background])

HlBoldOnly == Attrs(Prim("bool", "", 1), PUndefined, PUndefined, PUndefined)

HlItalicColoured == Attrs(PUndefined, Prim("num", "", 1), Prim("num", "", 255), PUndefined)

HlPlain == Attrs(Prim("bool", "", 0), Prim("num", "", 0), PUndefined, Prim("num", "", 7))

\* batches as Neovim sends them
WellFormedBatches ==
    { Batch("cursor_goto", <<Tuple(<<JNum(1), JNum(2)>>)>>),
      Batch("put", <<Tuple(<<JStr("a")>>), Tuple(<<JStr("b")>>)>>),
      Batch("put", <<Tuple(<<JStr("c")>>)>>),
      Batch("set_scroll_region", <<Tuple(<<JNum(0), JNum(9), JNum(0), JNum(19)>>)>>),
      Batch("scroll", <<Tuple(<<JNum(-1)>>)>>),
      Batch("highlight_set", <<Tuple(<<HlBoldOnly>>), Tuple(<<HlItalicColoured>>)>>),
      Batch("highlight_set", <<Tuple(<<HlPlain>>)>>),
      Batch("resize", <<Tuple(<<JNum(80), JNum(40)>>)>>),
      Batch("eol_clear", <<Tuple(<<>>)>>),
      Batch("clear", <<Tuple(<<>>)>>),
      Batch("mouse_on", <<Tuple(<<>>)>>),
      Batch("mouse_off", <<Tuple(<<>>)>>),
      Batch("update_bg", <<Tuple(<<JNum(-1)>>)>>),
      Batch("update_fg", <<Tuple(<<JNum(255)>>)>>),
      Batch("mode_change", <<Tuple(<<JStr("insert")>>)>>),
      Batch("mode_change", <<Tuple(<<JStr("normal")>>), Tuple(<<JStr("insert")>>)>>),
      Batch("bell", <<Tuple(<<>>)>>) }

\* batches the handler cannot interpret: no parameter tuple at all, or a
\* highlight_set whose authoritative tuple carries no attribute map
MalformedBatches ==
    { Batch("cursor_goto", <<>>),
      Batch("highlight_set", <<Tuple(<<HlBoldOnly>>), Tuple(<<>>)>>) }

Batches == WellFormedBatches \cup MalformedBatches

SeqsUpTo(S, n) == UNION { [1..k -> S] : k \in 0..n }

\* the batches that are also delivered several to a payload
SequencedBatches ==
    { Batch("put", <<Tuple(<<JStr("a")>>), Tuple(<<JStr("b")>>)>>),
      Batch("highlight_set", <<Tuple(<<HlBoldOnly>>), Tuple(<<HlItalicColoured>>)>>),
      Batch("clear", <<Tuple(<<>>)>>),
      Batch("mode_change", <<Tuple(<<JStr("normal")>>), Tuple(<<JStr("insert")>>)>>),
      Batch("bell", <<Tuple(<<>>)>>),
      Batch("cursor_goto", <<>>) }

\* redraw payloads: every batch of B alone, and up to n batches of S in a row
Payloads(B, S, n) == { <<b>> : b \in B } \cup SeqsUpTo(S, n)

\* the batches of the combined specification
CoreBatches ==
    { Batch("put", <<Tuple(<<JStr("a")>>), Tuple(<<JStr("b")>>)>>),
      Batch("highlight_set", <<Tuple(<<HlBoldOnly>>), Tuple(<<HlItalicColoured>>)>>),
      Batch("mode_change", <<Tuple(<<JStr("insert")>>)>>),
      Batch("cursor_goto", <<>>) }

\* the batches of the specification of notifications among host calls
BlockBatches ==
    { Batch("put", <<Tuple(<<JStr("a")>>), Tuple(<<JStr("b")>>)>>),
      Batch("clear", <<Tuple(<<>>)>>),
      Batch("cursor_goto", <<>>) }

PluginPayloads ==
    { << JArr(<<JStr("pluginMethod"), JStr("x"), JStr("y")>>) >>,
      << JArr(<<JStr("buffer_update"), JStr("x")>>), JStr("extra") >>,
      << JArr(<<JStr("clear"), JArr(<<>>)>>) >>,
      << >> }

OtherMethods == {"oni_unknown"}

Widths == {800, 805, 1000}

Heights == {400, 403}

Fonts == { <<"Consolas", "14px">>, <<"Consolas", "20px">> }

\* measureFont: the cell size of a font
MeasureFont(fontFamily, fontSize) ==
    IF fontSize = "14px" THEN [width |-> 10, height |-> 10]
    ELSE [width |-> 16, height |-> 20]

NoFixedSize == [has |-> FALSE, rows |-> 0, columns |-> 0]

FixedSizes == { NoFixedSize, [has |-> TRUE, rows |-> 25, columns |-> 100] }

(***************************************************************************)
(* State.                                                                  *)
(***************************************************************************)
VARIABLES
    initPromise,          \* _initPromise: "pending", "fulfilled" or "rejected"
    thenQueue,            \* callbacks given to _initPromise.then, not yet run
    handlers,             \* the notification/request/disconnect handlers are registered
    attachPending,        \* uiAttach was sent and its callback has not fired
    attachErr,            \* the err values the uiAttach callback was given
    pluginsStarted,       \* calls of _pluginManager.startPlugins
    rpc,                  \* calls made on the Neovim session, in order
    fontFamily,           \* _fontFamily
    fontSize,             \* _fontSize
    fontWidthInPixels,    \* _fontWidthInPixels
    fontHeightInPixels,   \* _fontHeightInPixels
    lastWidthInPixels,    \* _lastWidthInPixels
    lastHeightInPixels,   \* _lastHeightInPixels
    fixedSize,            \* Config "debug.fixedSize"
    actions,              \* the "action" events emitted, in order
    modeChanges,          \* the "mode-change" events emitted, in order
    pluginCalls,          \* calls of _pluginManager.handleNotification, in order
    quitCalls,            \* calls of app.quit()
    lastEvent,            \* history: the last handler or method that ran
    hostCalls,            \* history: the resize()/setFont() calls, in order
    nBatches              \* history: batches and other notifications delivered

vars == << initPromise, thenQueue, handlers, attachPending, attachErr, pluginsStarted,
           rpc, fontFamily, fontSize, fontWidthInPixels, fontHeightInPixels,
           lastWidthInPixels, lastHeightInPixels, fixedSize, actions, modeChanges,
           pluginCalls, quitCalls, lastEvent, hostCalls, nBatches >>

startupVars == << initPromise, thenQueue, handlers, attachPending, attachErr,
                  pluginsStarted, rpc >>

geometryVars == << fontFamily, fontSize, fontWidthInPixels, fontHeightInPixels,
                   lastWidthInPixels, lastHeightInPixels, fixedSize, hostCalls >>

NoOut == Out(<<>>, <<>>, <<>>, FALSE)

Event(op, redraw, plugin, out) ==
    [op |-> op, redraw |-> redraw, plugin |-> plugin, out |-> out]

Rpc(method, args) == [method |-> method, args |-> args]

HostCall(op, w, h, cw, ch) == [op |-> op, w |-> w, h |-> h, cw |-> cw, ch |-> ch]

(***************************************************************************)
(* Geometry: resize, _resizeInternal, setFont.                             *)
(***************************************************************************)
Deferred(rows, columns) == [rows |-> rows, columns |-> columns]

ResizeInternalNoOverride(rows, columns, fixed) == Deferred(rows, columns)

\* _resizeInternal up to _initPromise.then: the callback it registers
ResizeInternal(rows, columns, fixed) ==
    IF fixed.has THEN Deferred(fixed.rows, fixed.columns)
    ELSE Deferred(rows, columns)

\* Math.floor(heightInPixels / _fontHeightInPixels), Math.floor(widthInPixels / _fontWidthInPixels)
Grid(widthInPixels, heightInPixels, cw, ch) ==
    [rows |-> heightInPixels \div ch, cols |-> widthInPixels \div cw]

UiTryResizeSwapped(d) == Rpc("uiTryResize", <<d.rows, d.columns>>)

\* the callback registered by _resizeInternal: this._neovim.uiTryResize(columns, rows, ...)
UiTryResize(d) == Rpc("uiTryResize", <<d.columns, d.rows>>)

\* the state after resize(widthInPixels, heightInPixels), as primed variables
ResizeEffect(widthInPixels, heightInPixels, cw, ch) ==
    LET g == Grid(widthInPixels, heightInPixels, cw, ch)
    IN  /\ lastWidthInPixels' = widthInPixels
        /\ lastHeightInPixels' = heightInPixels
        /\ thenQueue' = Append(thenQueue, ResizeInternal(g.rows, g.cols, fixedSize))

Resize(W, H) ==
    \E widthInPixels \in W, heightInPixels \in H :
        /\ Len(hostCalls) < MaxCalls
        /\ ResizeEffect(widthInPixels, heightInPixels, fontWidthInPixels, fontHeightInPixels)
        /\ hostCalls' = Append(hostCalls, HostCall("resize", widthInPixels, heightInPixels,
                                                   fontWidthInPixels, fontHeightInPixels))
        /\ lastEvent' = Event("resize", <<>>, <<>>, NoOut)
        /\ UNCHANGED << initPromise, handlers, attachPending, attachErr, pluginsStarted, rpc,
                        fontFamily, fontSize, fontWidthInPixels, fontHeightInPixels, fixedSize,
                        actions, modeChanges, pluginCalls, quitCalls, nBatches >>

SetFontAction(family, size, width, height) ==
    Action("SET_FONT", <<JStr(family), JStr(size), JNum(width), JNum(height)>>)

SetFontStaleMetrics(F) ==
    \E font \in F :
        LET m == MeasureFont(font[1], font[2])
        IN  /\ Len(hostCalls) < MaxCalls
            /\ fontFamily' = font[1]
            /\ fontSize' = font[2]
            /\ fontWidthInPixels' = m.width
            /\ fontHeightInPixels' = m.height
            /\ actions' = Append(actions, SetFontAction(font[1], font[2], m.width, m.height))
            /\ ResizeEffect(lastWidthInPixels, lastHeightInPixels,
                            fontWidthInPixels, fontHeightInPixels)
            /\ hostCalls' = Append(hostCalls, HostCall("setFont", lastWidthInPixels,
                                                       lastHeightInPixels, m.width, m.height))
            /\ lastEvent' = Event("setFont", <<>>, <<>>, NoOut)
            /\ UNCHANGED << initPromise, handlers, attachPending, attachErr, pluginsStarted,
                            rpc, fixedSize, modeChanges, pluginCalls, quitCalls, nBatches >>

\* setFont(fontFamily, fontSize), with the resize it ends with
SetFont(F) ==
    \E font \in F :
        LET m == MeasureFont(font[1], font[2])
        IN  /\ Len(hostCalls) < MaxCalls
            /\ fontFamily' = font[1]
            /\ fontSize' = font[2]
            /\ fontWidthInPixels' = m.width
            /\ fontHeightInPixels' = m.height
            /\ actions' = Append(actions, SetFontAction(font[1], font[2], m.width, m.height))
            /\ ResizeEffect(lastWidthInPixels, lastHeightInPixels, m.width, m.height)
            /\ hostCalls' = Append(hostCalls, HostCall("setFont", lastWidthInPixels,
                                                       lastHeightInPixels, m.width, m.height))
            /\ lastEvent' = Event("setFont", <<>>, <<>>, NoOut)
            /\ UNCHANGED << initPromise, handlers, attachPending, attachErr, pluginsStarted,
                            rpc, fixedSize, modeChanges, pluginCalls, quitCalls, nBatches >>

RunDeferredEarly ==
    /\ initPromise # "rejected"
    /\ thenQueue # <<>>
    /\ rpc' = Append(rpc, UiTryResize(Head(thenQueue)))
    /\ thenQueue' = Tail(thenQueue)
    /\ lastEvent' = Event("deferred", <<>>, <<>>, NoOut)
    /\ UNCHANGED << initPromise, handlers, attachPending, attachErr, pluginsStarted,
                    geometryVars, actions, modeChanges, pluginCalls, quitCalls, nBatches >>

\* a callback registered with _initPromise.then runs once the promise is fulfilled
RunDeferred ==
    /\ initPromise = "fulfilled"
    /\ thenQueue # <<>>
    /\ rpc' = Append(rpc, UiTryResize(Head(thenQueue)))
    /\ thenQueue' = Tail(thenQueue)
    /\ lastEvent' = Event("deferred", <<>>, <<>>, NoOut)
    /\ UNCHANGED << initPromise, handlers, attachPending, attachErr, pluginsStarted,
                    geometryVars, actions, modeChanges, pluginCalls, quitCalls, nBatches >>

(***************************************************************************)
(* Startup: the constructor's promise chain.                               *)
(***************************************************************************)
\* the state the constructor leaves: the promise pending, the font set by
\* setFont("Consolas", "14px"), whose resize is waiting on the promise
Init ==
    \E w \in Widths, h \in Heights, fixed \in FixedSizes :
        LET m == MeasureFont("Consolas", "14px")
            g == Grid(w, h, m.width, m.height)
        IN  /\ initPromise = "pending"
            /\ thenQueue = << ResizeInternal(g.rows, g.cols, fixed) >>
            /\ handlers = FALSE
            /\ attachPending = FALSE
            /\ attachErr = <<>>
            /\ pluginsStarted = 0
            /\ rpc = <<>>
            /\ fontFamily = "Consolas"
            /\ fontSize = "14px"
            /\ fontWidthInPixels = m.width
            /\ fontHeightInPixels = m.height
            /\ lastWidthInPixels = w
            /\ lastHeightInPixels = h
            /\ fixedSize = fixed
            /\ actions = << SetFontAction("Consolas", "14px", m.width, m.height) >>
            /\ modeChanges = <<>>
            /\ pluginCalls = <<>>
            /\ quitCalls = 0
            /\ lastEvent = Event("constructor", <<>>, <<>>, NoOut)
            /\ hostCalls = << HostCall("setFont", w, h, m.width, m.height) >>
            /\ nBatches = 0

StartNeovimAttachFirst ==
    /\ initPromise = "pending"
    /\ rpc' = rpc \o << Rpc("command", <<>>), Rpc("uiAttach", <<80, 40>>),
                        Rpc("on:notification", <<>>), Rpc("on:request", <<>>),
                        Rpc("on:disconnect", <<>>) >>
    /\ handlers' = TRUE
    /\ attachPending' = TRUE
    /\ initPromise' = "fulfilled"
    /\ lastEvent' = Event("started", <<>>, <<>>, NoOut)
    /\ UNCHANGED << thenQueue, attachErr, pluginsStarted, geometryVars, actions,
                    modeChanges, pluginCalls, quitCalls, nBatches >>

\* startNeovim's promise is fulfilled: the then callback of the constructor runs
\* (command, the three on(...) registrations, then uiAttach)
StartNeovimFulfilled ==
    /\ initPromise = "pending"
    /\ rpc' = rpc \o << Rpc("command", <<>>), Rpc("on:notification", <<>>),
                        Rpc("on:request", <<>>), Rpc("on:disconnect", <<>>),
                        Rpc("uiAttach", <<80, 40>>) >>
    /\ handlers' = TRUE
    /\ attachPending' = TRUE
    /\ initPromise' = "fulfilled"
    /\ lastEvent' = Event("started", <<>>, <<>>, NoOut)
    /\ UNCHANGED << thenQueue, attachErr, pluginsStarted, geometryVars, actions,
                    modeChanges, pluginCalls, quitCalls, nBatches >>

\* startNeovim's promise is rejected: nothing was chained for that case
StartNeovimRejected ==
    /\ initPromise = "pending"
    /\ initPromise' = "rejected"
    /\ lastEvent' = Event("startFailed", <<>>, <<>>, NoOut)
    /\ UNCHANGED << thenQueue, handlers, attachPending, attachErr, pluginsStarted, rpc,
                    geometryVars, actions, modeChanges, pluginCalls, quitCalls, nBatches >>

\* the callback given to uiAttach
UiAttachCallback ==
    \E err \in BOOLEAN :
        /\ attachPending
        /\ attachPending' = FALSE
        /\ attachErr' = Append(attachErr, err)
        /\ pluginsStarted' = pluginsStarted + 1
        /\ lastEvent' = Event("attached", <<>>, <<>>, NoOut)
        /\ UNCHANGED << initPromise, thenQueue, handlers, rpc, geometryVars, actions,
                        modeChanges, pluginCalls, quitCalls, nBatches >>

(***************************************************************************)
(* The handlers registered on the Neovim session.                          *)
(***************************************************************************)
Cost(args) == IF Len(args) = 0 THEN 1 ELSE Len(args)

RedrawNotificationYields(B, S, n) ==
    /\ handlers
    /\ nBatches < MaxBatches
    /\ \E args \in Payloads(B, S, IF MaxBatches - nBatches < n THEN MaxBatches - nBatches ELSE n) :
          LET out == HandleNotification(args)
          IN  /\ actions' = actions \o out.actions
              /\ modeChanges' = modeChanges \o out.modes
              /\ lastEvent' = Event("redraw", args, <<>>, out)
              /\ nBatches' = nBatches + Cost(args)
    /\ IF thenQueue # <<>>
       THEN /\ rpc' = Append(rpc, UiTryResize(Head(thenQueue)))
            /\ thenQueue' = Tail(thenQueue)
       ELSE UNCHANGED << rpc, thenQueue >>
    /\ UNCHANGED << initPromise, handlers, attachPending, attachErr, pluginsStarted,
                    geometryVars, pluginCalls, quitCalls >>

\* "notification" with method "redraw"
RedrawNotification(B, S, n) ==
    /\ handlers
    /\ nBatches < MaxBatches
    /\ \E args \in Payloads(B, S, IF MaxBatches - nBatches < n THEN MaxBatches - nBatches ELSE n) :
          LET out == HandleNotification(args)
          IN  /\ actions' = actions \o out.actions
              /\ modeChanges' = modeChanges \o out.modes
              /\ lastEvent' = Event("redraw", args, <<>>, out)
              /\ nBatches' = nBatches + Cost(args)
    /\ UNCHANGED << startupVars, geometryVars, pluginCalls, quitCalls >>

IsBatchLike(v) == v.k = "arr" /\ v.a # <<>>

PluginNotificationAsRedraw ==
    /\ handlers
    /\ nBatches < MaxBatches
    /\ \E args \in PluginPayloads :
          LET like == SelectSeq(args, IsBatchLike)
              out == HandleNotification([i \in 1..Len(like) |-> like[i].a])
          IN  /\ actions' = actions \o out.actions
              /\ modeChanges' = modeChanges \o out.modes
              /\ lastEvent' = Event("plugin", <<>>, args, out)
    /\ nBatches' = nBatches + 1
    /\ UNCHANGED << startupVars, geometryVars, pluginCalls, quitCalls >>

\* "notification" with method "oni_plugin_notify"
PluginNotification ==
    /\ handlers
    /\ nBatches < MaxBatches
    /\ \E args \in PluginPayloads :
          LET out == PluginNotify(args)
          IN  /\ pluginCalls' = pluginCalls \o out.calls
              /\ lastEvent' = Event("plugin", <<>>, args, Out(<<>>, <<>>, <<>>, out.threw))
    /\ nBatches' = nBatches + 1
    /\ UNCHANGED << startupVars, geometryVars, actions, modeChanges, quitCalls >>

\* "notification" with any other method
UnknownNotification ==
    /\ handlers
    /\ nBatches < MaxBatches
    /\ \E method \in OtherMethods :
          lastEvent' = Event("unknown", <<>>, <<>>,
                             Out(<<>>, <<>>, <<"Unknown notification: " \o method>>, FALSE))
    /\ nBatches' = nBatches + 1
    /\ UNCHANGED << startupVars, geometryVars, actions, modeChanges, pluginCalls, quitCalls >>

\* "disconnect": require("electron").remote.app.quit()
Disconnect ==
    /\ handlers
    /\ quitCalls = 0
    /\ quitCalls' = quitCalls + 1
    /\ lastEvent' = Event("disconnect", <<>>, <<>>, NoOut)
    /\ UNCHANGED << startupVars, geometryVars, actions, modeChanges, pluginCalls, nBatches >>

(***************************************************************************)
(* Specifications.                                                         *)
(***************************************************************************)
\* the session: startup and everything the Neovim session delivers
NextSession ==
    \/ StartNeovimFulfilled
    \/ StartNeovimRejected
    \/ RedrawNotification(Batches, SequencedBatches, MaxBatches)
    \/ PluginNotification
    \/ UnknownNotification
    \/ Disconnect

\* one construction: new NeovimInstance(pluginManager, 805, 403), no debug.fixedSize
InitSession ==
    /\ Init
    /\ lastWidthInPixels = 805
    /\ lastHeightInPixels = 403
    /\ fixedSize = NoFixedSize

SpecSession == InitSession /\ [][NextSession]_vars

\* the geometry: startup and the host's resize() and setFont() calls
NextGeometry ==
    \/ StartNeovimFulfilled
    \/ StartNeovimRejected
    \/ UiAttachCallback
    \/ Resize(Widths, Heights)
    \/ SetFont(Fonts)
    \/ RunDeferred

SpecGeometry == Init /\ [][NextGeometry]_vars

\* redraw notifications among the host's calls and the deferred callbacks
NextInterleaved ==
    \/ StartNeovimFulfilled
    \/ Resize({1000}, {400})
    \/ SetFont({<<"Consolas", "20px">>})
    \/ RunDeferred
    \/ RedrawNotification(BlockBatches, BlockBatches, 2)

SpecInterleaved == InitSession /\ [][NextInterleaved]_vars

\* everything together, with one batch per redraw notification
Next ==
    \/ StartNeovimFulfilled
    \/ StartNeovimRejected
    \/ UiAttachCallback
    \/ Resize({805}, {403})
    \/ SetFont({<<"Consolas", "20px">>})
    \/ RunDeferred
    \/ RedrawNotification(CoreBatches, CoreBatches, 1)
    \/ PluginNotification
    \/ UnknownNotification
    \/ Disconnect

Spec == InitSession /\ [][Next]_vars

(***************************************************************************)
(* What the claims speak of.                                               *)
(***************************************************************************)
CommandOf(batch) == Head(batch).s

\* commands whose branch reads the first parameter tuple
FirstTupleCommands ==
    {"cursor_goto", "set_scroll_region", "scroll", "resize", "update_bg", "update_fg",
     "mode_change"}

\* commands whose branch emits an action
ActionCommands ==
    FirstTupleCommands \cup {"put", "highlight_set", "eol_clear", "clear"}

ActionTypeOf(command) ==
    CASE command = "cursor_goto" -> "CURSOR_GOTO"
      [] command = "put" -> "PUT"
      [] command = "set_scroll_region" -> "SET_SCROLL_REGION"
      [] command = "scroll" -> "SCROLL"
      [] command = "highlight_set" -> "SET_HIGHLIGHT"
      [] command = "resize" -> "RESIZE"
      [] command = "eol_clear" -> "CLEAR_TO_END_OF_LINE"
      [] command = "clear" -> "CLEAR"
      [] command = "update_bg" -> "UPDATE_BG"
      [] command = "update_fg" -> "UPDATE_FG"
      [] command = "mode_change" -> "CHANGE_MODE"
      [] OTHER -> "NONE"

\* the batch can be interpreted: the tuple its branch reads is there
Decodable(batch) ==
    LET a == Tail(batch)
    IN  /\ CommandOf(batch) \in FirstTupleCommands => Len(a) >= 1
        /\ CommandOf(batch) = "highlight_set" =>
              /\ Len(a) >= 1
              /\ a[Len(a)].k = "arr"
              /\ Len(a[Len(a)].a) >= 1

IsActionBatch(batch) == CommandOf(batch) \in ActionCommands

\* the batches decoded with success: those before the first that cannot be interpreted
DecodedPrefix(args) ==
    LET bad == { i \in 1..Len(args) : ~Decodable(args[i]) }
        stop == IF bad = {} THEN Len(args)
                ELSE (CHOOSE i \in bad : \A j \in bad : i <= j) - 1
    IN  SubSeq(args, 1, stop)

DecodedActionBatches(args) == SelectSeq(DecodedPrefix(args), IsActionBatch)

AllDecodable(args) == \A i \in 1..Len(args) : Decodable(args[i])

IsRedraw(e) == e.op = "redraw"

(***************************************************************************)
(* C1.  Every redraw notification appends to the action stream exactly one *)
(* action per successfully decoded action-producing batch of its payload,  *)
(* in payload order: the k-th action appended is of the type of the k-th   *)
(* such batch and is the action that batch yields on its own.  Nothing is  *)
(* held back, dropped, repeated or reordered, and the stream after the     *)
(* notification is the stream before it followed by these actions.         *)
(***************************************************************************)
C1_ActionsFollowDecodeOrder ==
    [][ IsRedraw(lastEvent') =>
          LET decoded == DecodedActionBatches(lastEvent'.redraw)
              emitted == lastEvent'.out.actions
          IN  /\ actions' = actions \o emitted
              /\ Len(emitted) = Len(decoded)
              /\ \A k \in 1..Len(decoded) :
                    /\ emitted[k].type = ActionTypeOf(CommandOf(decoded[k]))
                    /\ <<emitted[k]>> = HandleCommand(decoded[k]).actions
              /\ AllDecodable(lastEvent'.redraw) =>
                    Len(emitted) = Cardinality({ i \in 1..Len(lastEvent'.redraw) :
                                                   IsActionBatch(lastEvent'.redraw[i]) })
      ]_vars

\* a payload of several batches has emitted several actions after the
\* actions of an earlier notification
C1_Witness ==
    /\ IsRedraw(lastEvent)
    /\ Len(lastEvent.redraw) >= 2
    /\ Len(lastEvent.out.actions) >= 2
    /\ lastEvent.out.actions[1].type # lastEvent.out.actions[2].type
    /\ Len(actions) > 1 + Len(lastEvent.out.actions)

(***************************************************************************)
(* C2.  Every decoded put batch with N >= 1 tuples yields exactly one PUT  *)
(* action, whose characters are the first fields of the N tuples in tuple  *)
(* order; the number of PUT actions a notification emits is the number of  *)
(* put batches it decoded.                                                 *)
(***************************************************************************)
IsPutBatch(batch) == CommandOf(batch) = "put"

IsPutAction(act) == act.type = "PUT"

FirstField(tuple) == IF Len(tuple.a) >= 1 THEN tuple.a[1] ELSE Undefined

C2_OnePutPerBatch ==
    IsRedraw(lastEvent) =>
        LET decoded == DecodedActionBatches(lastEvent.redraw)
            emitted == lastEvent.out.actions
        IN  /\ Len(SelectSeq(emitted, IsPutAction)) = Len(SelectSeq(decoded, IsPutBatch))
            /\ \A k \in 1..Len(decoded) :
                  IsPutBatch(decoded[k]) /\ Len(decoded[k]) >= 2 =>
                      LET tuples == Tail(decoded[k])
                          chars == emitted[k].args[1].a
                      IN  /\ k <= Len(emitted)
                          /\ IsPutAction(emitted[k])
                          /\ Len(emitted[k].args) = 1
                          /\ Len(chars) = Len(tuples)
                          /\ \A i \in 1..Len(tuples) : chars[i] = FirstField(tuples[i])

\* a put batch of two tuples was decoded after another batch of the payload
C2_Witness ==
    /\ IsRedraw(lastEvent)
    /\ \E k \in 2..Len(lastEvent.redraw) :
          /\ IsPutBatch(lastEvent.redraw[k])
          /\ Len(lastEvent.redraw[k]) = 3
          /\ Len(lastEvent.out.actions) >= k
          /\ IsPutAction(lastEvent.out.actions[k])
          /\ Len(lastEvent.out.actions[k].args[1].a) = 2

(***************************************************************************)
(* C3.  The applied highlight state is what the latest SET_HIGHLIGHT of    *)
(* the action stream carries.  After a redraw notification it is given by  *)
(* the LAST tuple of the last highlight_set batch the notification         *)
(* decoded (flag for flag by truth value, colour for colour), and is       *)
(* unchanged when it decoded none; every other step leaves it unchanged.   *)
(* Every PUT a notification emits follows, in the stream, the state set by *)
(* the nearest highlight_set batch decoded before its put batch.           *)
(***************************************************************************)
IsHighlightBatch(batch) == CommandOf(batch) = "highlight_set"

\* the arguments of the latest SET_HIGHLIGHT of a stream, <<>> when there is none
AppliedHighlight(stream) ==
    LET at == { i \in 1..Len(stream) : stream[i].type = "SET_HIGHLIGHT" }
    IN  IF at = {} THEN <<>>
        ELSE stream[CHOOSE i \in at : \A j \in at : j <= i].args

Flags == <<"bold", "italic", "reverse", "underline", "undercurl">>

\* the applied state is the one the last tuple of the batch gives
GivenByLastTuple(applied, batch) ==
    LET info == FirstField(batch[Len(batch)])
    IN  /\ Len(applied) = 7
        /\ \A f \in 1..5 : Truthy(applied[f]) = Truthy(Prop(info, Flags[f]))
        /\ applied[6] = Prop(info, "foreground")
        /\ applied[7] = Prop(info, "background")

C3_HighlightIsLastTuple ==
    [][ IF IsRedraw(lastEvent')
        THEN LET decoded == DecodedActionBatches(lastEvent'.redraw)
                 hl == SelectSeq(decoded, IsHighlightBatch)
             IN  /\ IF hl = <<>>
                    THEN AppliedHighlight(actions') = AppliedHighlight(actions)
                    ELSE GivenByLastTuple(AppliedHighlight(actions'), hl[Len(hl)])
                 /\ \A k \in 1..Len(decoded) :
                       IsPutBatch(decoded[k]) =>
                           LET before == AppliedHighlight(SubSeq(actions', 1, Len(actions) + k - 1))
                               set == { j \in 1..(k - 1) : IsHighlightBatch(decoded[j]) }
                           IN  IF set = {} THEN before = AppliedHighlight(actions)
                               ELSE GivenByLastTuple(before,
                                        decoded[CHOOSE j \in set : \A i \in set : i <= j])
        ELSE AppliedHighlight(actions') = AppliedHighlight(actions)
      ]_vars

\* a highlight_set of two tuples that differ was decoded, after an earlier
\* highlight_set had set another state, and a put follows it in the payload
C3_Witness ==
    /\ IsRedraw(lastEvent)
    /\ \E k \in 1..(Len(lastEvent.redraw) - 1) :
          /\ IsHighlightBatch(lastEvent.redraw[k])
          /\ Len(lastEvent.redraw[k]) = 3
          /\ IsPutBatch(lastEvent.redraw[k + 1])
          /\ Len(lastEvent.out.actions) = Len(lastEvent.redraw)
    /\ Truthy(AppliedHighlight(actions)[2])
    /\ ~Truthy(AppliedHighlight(actions)[1])
    /\ \E i \in 1..(Len(actions) - Len(lastEvent.out.actions)) :
          /\ actions[i].type = "SET_HIGHLIGHT"
          /\ ~Truthy(actions[i].args[2])

(***************************************************************************)
(* Resize requests: the uiTryResize calls made on the session, and those   *)
(* still waiting on the startup promise.                                   *)
(***************************************************************************)
IsResizeRequest(call) == call.method = "uiTryResize"

\* the (columns, rows) of the resize requests sent so far, in order
SentSizes == LET sent == SelectSeq(rpc, IsResizeRequest)
             IN  [i \in 1..Len(sent) |-> sent[i].args]

\* the (columns, rows) of the requests registered and not yet sent
WaitingSizes == [i \in 1..Len(thenQueue) |-> <<thenQueue[i].columns, thenQueue[i].rows>>]

(***************************************************************************)
(* C4.  A resize request is sent only when the grid computed from the      *)
(* viewport differs from the grid of the request before it: without a      *)
(* fixed-size override, no two resize requests in a row carry the same     *)
(* (columns, rows).                                                        *)
(***************************************************************************)
C4_NoRequestForUnchangedGrid ==
    ~fixedSize.has =>
        \A i \in 1..(Len(SentSizes) - 1) : SentSizes[i] # SentSizes[i + 1]

(***************************************************************************)
(* C5.  With debug.fixedSize set, every resize request, sent or waiting to *)
(* be sent, carries the forced (columns, rows), whatever resize() and      *)
(* setFont() calls were made.                                              *)
(***************************************************************************)
C5_FixedSizeWins ==
    fixedSize.has =>
        /\ \A i \in 1..Len(SentSizes) : SentSizes[i] = <<fixedSize.columns, fixedSize.rows>>
        /\ \A i \in 1..Len(WaitingSizes) :
              WaitingSizes[i] = <<fixedSize.columns, fixedSize.rows>>

\* with the override set, requests were sent for a resize() to a viewport and
\* a setFont() to a font that both give another grid than the forced one
C5_Witness ==
    /\ fixedSize.has
    /\ Len(SentSizes) >= 3
    /\ \E i, j \in 2..Len(hostCalls) :
          /\ i <= Len(SentSizes) /\ j <= Len(SentSizes)
          /\ hostCalls[i].op = "resize"
          /\ hostCalls[i].w \div hostCalls[i].cw # fixedSize.columns
          /\ hostCalls[j].op = "setFont"
          /\ hostCalls[j].ch = 20
          /\ hostCalls[j].h \div hostCalls[j].ch # fixedSize.rows

(***************************************************************************)
(* C6.  Without debug.fixedSize, every resize(widthPx, heightPx), and the  *)
(* resize setFont makes, registers exactly one resize request, which       *)
(* carries cols = floor(widthPx / cellWidth) and rows = floor(heightPx /   *)
(* cellHeight) as (cols, rows): the requests sent followed by those        *)
(* waiting are, call for call, these sizes.  With 10x10 cells the viewport *)
(* (805, 403) gives the request (80, 40).                                  *)
(***************************************************************************)
C6_OneRequestPerResize ==
    ~fixedSize.has =>
        LET requests == SentSizes \o WaitingSizes
        IN  /\ Len(requests) = Len(hostCalls)
            /\ \A i \in 1..Len(hostCalls) :
                  LET c == hostCalls[i]
                  IN  /\ requests[i] = << c.w \div c.cw, c.h \div c.ch >>
                      /\ (c.w = 805 /\ c.h = 403 /\ c.cw = 10 /\ c.ch = 10)
                            => requests[i] = <<80, 40>>
                      /\ (c.w = 1000 /\ c.h = 403 /\ c.cw = 16 /\ c.ch = 20)
                            => requests[i] = <<62, 20>>

\* resize(805, 403) was called with 10x10 cells and its request was sent
C6_Witness ==
    /\ ~fixedSize.has
    /\ \E i \in 2..Len(hostCalls) :
          /\ hostCalls[i] = HostCall("resize", 805, 403, 10, 10)
          /\ i <= Len(SentSizes)
          /\ SentSizes[i] = <<80, 40>>

(***************************************************************************)
(* C7.  An oni_plugin_notify notification whose first payload element is   *)
(* [m, x1, ..., xn] makes exactly one handleNotification call, with method *)
(* m and the flat argument list [x1, ..., xn].                             *)
(***************************************************************************)
C7_PluginArgsAreFlat ==
    (/\ lastEvent.op = "plugin"
     /\ lastEvent.plugin # <<>>
     /\ IsBatchLike(lastEvent.plugin[1])) =>
        /\ pluginCalls # <<>>
        /\ pluginCalls[Len(pluginCalls)] =
              [method |-> lastEvent.plugin[1].a[1], args |-> Tail(lastEvent.plugin[1].a)]

(***************************************************************************)
(* C8.  A notification that is not a redraw (oni_plugin_notify or any      *)
(* other method) appends nothing to the action stream, raises no           *)
(* mode-change and leaves the applied highlight state as it was.  An       *)
(* unknown method only writes its warning: it throws nothing, calls no     *)
(* plugin, and the handlers stay registered for the notifications after    *)
(* it.                                                                     *)
(***************************************************************************)
C8_OnlyRedrawEmits ==
    [][ lastEvent'.op \in {"plugin", "unknown"} =>
          /\ actions' = actions
          /\ modeChanges' = modeChanges
          /\ AppliedHighlight(actions') = AppliedHighlight(actions)
          /\ lastEvent'.out.actions = <<>>
          /\ lastEvent'.out.modes = <<>>
          /\ handlers'
          /\ lastEvent'.op = "unknown" =>
                /\ pluginCalls' = pluginCalls
                /\ ~lastEvent'.out.threw
                /\ Len(lastEvent'.out.warns) = 1
      ]_vars

\* an unknown notification arrived after a plugin notification and after a
\* redraw that had set a highlight state
C8_Witness ==
    /\ lastEvent.op = "unknown"
    /\ pluginCalls # <<>>
    /\ AppliedHighlight(actions) # <<>>

(***************************************************************************)
(* C9.  A batch with an unrecognized command name emits nothing and does   *)
(* not end the processing of its payload: the notification emits what it   *)
(* would emit with the unrecognized batches taken out, wherever they       *)
(* stand, and each decoded one is reported.  In a payload whose batches    *)
(* can all be interpreted every action-producing batch emits its action;   *)
(* unrecognized batches together with one clear give exactly one CLEAR.    *)
(***************************************************************************)
IsUnrecognized(batch) == CommandOf(batch) \notin (ActionCommands \cup {"mouse_on"})

IsRecognized(batch) == ~IsUnrecognized(batch)

IsClearBatch(batch) == CommandOf(batch) = "clear"

C9_UnknownCommandSkipped ==
    IsRedraw(lastEvent) =>
        LET args == lastEvent.redraw
            out == lastEvent.out
            without == HandleNotification(SelectSeq(args, IsRecognized))
        IN  /\ out.actions = without.actions
            /\ out.modes = without.modes
            /\ out.threw = without.threw
            /\ Len(out.warns) = Len(SelectSeq(DecodedPrefix(args), IsUnrecognized))
            /\ AllDecodable(args) =>
                  /\ ~out.threw
                  /\ Len(out.actions) = Len(SelectSeq(args, IsActionBatch))
            /\ (/\ \A i \in 1..Len(args) : IsUnrecognized(args[i]) \/ IsClearBatch(args[i])
                /\ Len(SelectSeq(args, IsClearBatch)) = 1)
                  => out.actions = << Action("CLEAR", <<>>) >>

\* an unrecognized batch stood between two batches that emitted their actions
C9_Witness ==
    /\ IsRedraw(lastEvent)
    /\ Len(lastEvent.redraw) = 3
    /\ IsClearBatch(lastEvent.redraw[1])
    /\ IsUnrecognized(lastEvent.redraw[2])
    /\ IsPutBatch(lastEvent.redraw[3])
    /\ Len(lastEvent.out.actions) = 2
    /\ Len(lastEvent.out.warns) = 1

(***************************************************************************)
(* C10.  Once the disconnect handler has run, no action and no mode-change *)
(* is emitted any more.                                                    *)
(***************************************************************************)
C10_SilentAfterDisconnect ==
    [][ quitCalls > 0 => (actions' = actions /\ modeChanges' = modeChanges) ]_vars

(***************************************************************************)
(* C11.  At most one resize negotiation is pending: a call made while an   *)
(* earlier request is still waiting supersedes it, so the geometry of a    *)
(* request that is sent is always the latest geometry registered, never a  *)
(* superseded one.                                                         *)
(***************************************************************************)
C11_OnlyLatestGeometrySent ==
    [][ lastEvent'.op = "deferred" => Head(thenQueue) = thenQueue[Len(thenQueue)] ]_vars

(***************************************************************************)
(* C12.  When the uiAttach callback is given an error, the adapter does    *)
(* not go on as attached: startPlugins is not called.                      *)
(***************************************************************************)
C12_NoPluginsAfterAttachError ==
    (\E i \in 1..Len(attachErr) : attachErr[i]) => pluginsStarted = 0

(***************************************************************************)
(* C13.  mouse_on and mouse_off are acknowledged no-ops: a payload made of *)
(* them emits no action and no mode-change, throws nothing and reports no  *)
(* unhandled command.                                                      *)
(***************************************************************************)
IsMouseBatch(batch) == CommandOf(batch) \in {"mouse_on", "mouse_off"}

C13_MouseCommandsAreSilent ==
    (/\ IsRedraw(lastEvent)
     /\ \A i \in 1..Len(lastEvent.redraw) : IsMouseBatch(lastEvent.redraw[i])) =>
        /\ lastEvent.out.actions = <<>>
        /\ lastEvent.out.modes = <<>>
        /\ lastEvent.out.warns = <<>>
        /\ ~lastEvent.out.threw

(***************************************************************************)
(* C14.  Each decoded mode_change batch has exactly two effects, both      *)
(* carrying the first field of its first tuple: one CHANGE_MODE action and *)
(* one mode-change signal.  The action is emitted first and the signal is  *)
(* the very next emission, before anything a later batch of the payload    *)
(* emits; the notification adds as many signals as it decoded mode_change  *)
(* batches, and nothing else raises a signal.                              *)
(***************************************************************************)
IsModeChangeBatch(batch) == CommandOf(batch) = "mode_change"

IsChangeModeAction(act) == act.type = "CHANGE_MODE"

IsActionEvent(e) == e.event = "action"

IsModeChangeEvent(e) == e.event = "mode-change"

C14_ModeChangeActionThenSignal ==
    [][ IF IsRedraw(lastEvent')
        THEN LET out == lastEvent'.out
                 decoded == DecodedActionBatches(lastEvent'.redraw)
                 changes == SelectSeq(decoded, IsModeChangeBatch)
                 trace == out.trace
             IN  /\ modeChanges' = modeChanges \o out.modes
                 /\ Len(out.modes) = Len(changes)
                 /\ Len(SelectSeq(out.actions, IsChangeModeAction)) = Len(changes)
                 /\ \A k \in 1..Len(changes) : out.modes[k] = FirstField(changes[k][2])
                 /\ \A k \in 1..Len(decoded) :
                       IsModeChangeBatch(decoded[k]) =>
                           out.actions[k] = Action("CHANGE_MODE", <<FirstField(decoded[k][2])>>)
                 /\ Len(trace) = Len(out.actions) + Len(out.modes)
                 /\ LET acts == SelectSeq(trace, IsActionEvent)
                        sigs == SelectSeq(trace, IsModeChangeEvent)
                    IN  /\ [i \in 1..Len(acts) |-> acts[i].value] = out.actions
                        /\ [i \in 1..Len(sigs) |-> sigs[i].value] = out.modes
                 /\ \A i \in 1..Len(trace) :
                       /\ IsModeChangeEvent(trace[i]) =>
                             /\ i > 1
                             /\ trace[i - 1] =
                                  Emitted("action", Action("CHANGE_MODE", <<trace[i].value>>))
                       /\ (IsActionEvent(trace[i]) /\ IsChangeModeAction(trace[i].value)) =>
                             /\ i < Len(trace)
                             /\ trace[i + 1] = Emitted("mode-change", trace[i].value.args[1])
        ELSE modeChanges' = modeChanges
      ]_vars

\* a mode_change of two tuples was decoded between two other batches that
\* emitted their actions, and its signal carries the first tuple's name
C14_Witness ==
    /\ IsRedraw(lastEvent)
    /\ Len(lastEvent.redraw) = 3
    /\ IsModeChangeBatch(lastEvent.redraw[2])
    /\ Len(lastEvent.redraw[2]) = 3
    /\ Len(lastEvent.out.trace) = 4
    /\ lastEvent.out.trace[3] = Emitted("mode-change", JStr("normal"))
    /\ modeChanges = << JStr("normal") >>

(***************************************************************************)
(* C15.  A recognized batch that cannot be interpreted is skipped alone:   *)
(* every action-producing batch of the payload that can be interpreted     *)
(* still emits its action, wherever it stands.                             *)
(***************************************************************************)
IsDecodableActionBatch(batch) == IsActionBatch(batch) /\ Decodable(batch)

C15_UndecodableBatchSkippedAlone ==
    IsRedraw(lastEvent) =>
        LET good == SelectSeq(lastEvent.redraw, IsDecodableActionBatch)
        IN  /\ Len(lastEvent.out.actions) = Len(good)
            /\ \A k \in 1..Len(good) :
                  k <= Len(lastEvent.out.actions) =>
                      <<lastEvent.out.actions[k]>> = HandleCommand(good[k]).actions

ReplacedBy(batch) ==
    LET info == FirstField(batch[Len(batch)])
    IN  [f \in 1..7 |->
           IF f <= 5
           THEN IF Prop(info, Flags[f]) = Undefined THEN JBool(FALSE)
                ELSE JBool(Truthy(Prop(info, Flags[f])))
           ELSE IF f = 6 THEN Prop(info, "foreground") ELSE Prop(info, "background")]

C17_HighlightReplacesAllFields ==
    [][ IsRedraw(lastEvent') =>
          LET decoded == DecodedActionBatches(lastEvent'.redraw)
              hl == SelectSeq(decoded, IsHighlightBatch)
              emitted == lastEvent'.out.actions
          IN  /\ \A k \in 1..Len(decoded) :
                    IsHighlightBatch(decoded[k]) =>
                        /\ emitted[k].type = "SET_HIGHLIGHT"
                        /\ Len(emitted[k].args) = 7
                        /\ \A f \in 1..5 : emitted[k].args[f].k = "bool"
                        /\ emitted[k].args = ReplacedBy(decoded[k])
              /\ hl # <<>> => AppliedHighlight(actions') = ReplacedBy(hl[Len(hl)])
      ]_vars

\* a highlight_set whose tuple carries neither a foreground nor the reverse
\* flag was decoded when the applied state was italic with a foreground
C17_Witness ==
    /\ IsRedraw(lastEvent)
    /\ Len(lastEvent.redraw) = 1
    /\ IsHighlightBatch(lastEvent.redraw[1])
    /\ Len(lastEvent.out.actions) = 1
    /\ LET before == AppliedHighlight(SubSeq(actions, 1, Len(actions) - 1))
           after == AppliedHighlight(actions)
       IN  /\ before # <<>>
           /\ before[2] = JBool(TRUE)
           /\ before[6] = JNum(255)
           /\ after[2] = JBool(FALSE)
           /\ after[6] = Undefined
           /\ after[7] = JNum(7)

(***************************************************************************)
(* C18.  setFont(family, size) stores the family, the size and the newly   *)
(* measured cell metrics, emits one SET_FONT carrying them, and registers  *)
(* one resize request computed from the NEW cell width and height and the  *)
(* last-known viewport, which it leaves unchanged.  The last-known         *)
(* viewport is always the pixel size given to the most recent resize()     *)
(* call, or to the constructor when resize() was never called.             *)
(***************************************************************************)
IsResizeCall(c) == c.op = "resize"

\* the viewport of the most recent resize() call, or else the constructor's
LastKnownViewport(calls) ==
    LET at == { i \in 1..Len(calls) : IsResizeCall(calls[i]) }
        c == IF at = {} THEN calls[1] ELSE calls[CHOOSE i \in at : \A j \in at : j <= i]
    IN  [w |-> c.w, h |-> c.h]

C18_SetFontRederivesGrid ==
    [][ /\ lastEvent'.op = "setFont" =>
            LET view == LastKnownViewport(hostCalls)
                m == MeasureFont(fontFamily', fontSize')
                asked == thenQueue'[Len(thenQueue')]
            IN  /\ fontWidthInPixels' = m.width
                /\ fontHeightInPixels' = m.height
                /\ lastWidthInPixels' = lastWidthInPixels
                /\ lastHeightInPixels' = lastHeightInPixels
                /\ lastWidthInPixels' = view.w
                /\ lastHeightInPixels' = view.h
                /\ actions' = Append(actions, SetFontAction(fontFamily', fontSize',
                                                            m.width, m.height))
                /\ thenQueue' = Append(thenQueue, asked)
                /\ rpc' = rpc
                /\ ~fixedSize.has =>
                      asked = Deferred(view.h \div m.height, view.w \div m.width)
        /\ lastWidthInPixels' = LastKnownViewport(hostCalls').w
        /\ lastHeightInPixels' = LastKnownViewport(hostCalls').h
      ]_vars

\* after resize(1000, 403), setFont to the 16x20 font asked for 62 x 20,
\* where the old 10x10 cells would have given 100 x 40
C18_Witness ==
    /\ lastEvent.op = "setFont"
    /\ ~fixedSize.has
    /\ Len(hostCalls) = 3
    /\ hostCalls[2] = HostCall("resize", 1000, 403, 10, 10)
    /\ hostCalls[3] = HostCall("setFont", 1000, 403, 16, 20)
    /\ lastWidthInPixels = 1000
    /\ lastHeightInPixels = 403
    /\ thenQueue # <<>>
    /\ thenQueue[Len(thenQueue)] = Deferred(20, 62)

(***************************************************************************)
(* Startup: the calls made on the session by the constructor's callback.   *)
(***************************************************************************)
HandlerRegistrations == {"on:notification", "on:request", "on:disconnect"}

\* the positions in the session's calls of the calls of a method
CallsOf(method) == { i \in 1..Len(rpc) : rpc[i].method = method }

\* the size a resize()/setFont() call asks for, as (columns, rows)
RequestedSize(c) ==
    IF fixedSize.has THEN <<fixedSize.columns, fixedSize.rows>>
    ELSE << c.w \div c.cw, c.h \div c.ch >>

(***************************************************************************)
(* C19.  No resize request is sent before startup has completed: every     *)
(* uiTryResize on the session comes after the handler registrations and    *)
(* the uiAttach, and none is sent while the startup promise is not         *)
(* fulfilled.  No call is lost: the requests sent, followed by those       *)
(* waiting, are the requests of the resize()/setFont() calls in the order  *)
(* the calls were made.  After a failed startup nothing is ever sent.      *)
(***************************************************************************)
C19_ResizeWaitsForStartup ==
    /\ \A i \in CallsOf("uiTryResize") :
          /\ \E j \in CallsOf("uiAttach") : j < i
          /\ \A m \in HandlerRegistrations : \E j \in CallsOf(m) : j < i
    /\ initPromise # "fulfilled" => (rpc = <<>> /\ Len(thenQueue) = Len(hostCalls))
    /\ initPromise = "rejected" => ~handlers
    /\ SentSizes \o WaitingSizes = [i \in 1..Len(hostCalls) |-> RequestedSize(hostCalls[i])]

\* the request of the constructor's setFont, deferred until startup, and the
\* request of a later call for another grid were both sent, in call order
C19_Witness ==
    /\ initPromise = "fulfilled"
    /\ ~fixedSize.has
    /\ thenQueue = <<>>
    /\ Len(SentSizes) = 3
    /\ SentSizes[1] = RequestedSize(hostCalls[1])
    /\ SentSizes[2] = RequestedSize(hostCalls[2])
    /\ SentSizes[3] = RequestedSize(hostCalls[3])
    /\ SentSizes[1] # SentSizes[2]
    /\ SentSizes[2] # SentSizes[3]

(***************************************************************************)
(* C20.  Startup ordering: the notification, request and disconnect        *)
(* handlers are registered, once each, before the uiAttach request is      *)
(* sent, so whenever uiAttach has been sent the handlers are there.        *)
(* Plugins are started only after the uiAttach callback has fired, and at  *)
(* most once.                                                              *)
(***************************************************************************)
C20_HandlersBeforeAttach ==
    /\ Cardinality(CallsOf("uiAttach")) <= 1
    /\ \A i \in CallsOf("uiAttach") :
          /\ handlers
          /\ \A m \in HandlerRegistrations :
                /\ Cardinality(CallsOf(m)) = 1
                /\ \E j \in CallsOf(m) : j < i
    /\ handlers <=> (CallsOf("uiAttach") # {})
    /\ pluginsStarted <= 1
    /\ pluginsStarted = Len(attachErr)
    /\ pluginsStarted > 0 => (CallsOf("uiAttach") # {} /\ ~attachPending)
    /\ attachPending => (CallsOf("uiAttach") # {} /\ pluginsStarted = 0)

\* the plugins were started after the uiAttach callback fired without error
C20_Witness ==
    /\ pluginsStarted = 1
    /\ attachErr = << FALSE >>
    /\ handlers
    /\ CallsOf("uiAttach") = {5}
    /\ lastEvent.op = "attached"

====
